---- MODULE Spec2Model ----
(***************************************************************************)
(* Model of tools/stable_diffusion.py: the Tools object, its Valves        *)
(* configuration and the two operations generate_image and                 *)
(* generate_image_advanced, each a single POST to the Stable Diffusion     *)
(* WebUI API whose outcome is mapped to a string.                          *)
(*                                                                         *)
(* Strings that the code builds with f-strings are modelled as sequences   *)
(* of parts (the literal pieces and the interpolated values, in order), so *)
(* that "the string contains X" is "X is one of the parts".                *)
(* Floats (cfg_scale) are held in tenths: 7.0 is 70.                       *)
(***************************************************************************)
EXTENDS Integers, Sequences, FiniteSets, TLC

VARIABLES
    valves,    \* self.valves, the configuration record
    pc,        \* "idle" | "awaiting" (POST in flight) | "returned" | "raised"
    op,        \* the operation being run
    args,      \* its parameters after Python bound the defaults
    given,     \* the names of the parameters the caller passed
    sent,      \* the HTTP requests issued by the running invocation
    response,  \* what the remote service did with the request
    result     \* what the caller got: a returned string or a raised exception

vars == <<valves, pc, op, args, given, sent, response, result>>

Max(a, b) == IF a >= b THEN a ELSE b
Min(a, b) == IF a <= b THEN a ELSE b

(***************************************************************************)
(* Bounds of the model.                                                    *)
(***************************************************************************)
\* longest images array of a response
MaxImages == 2
\* the steps arguments tried are 99 .. MaxStepsArg, next to some far values
MaxStepsArg == 101

(***************************************************************************)
(* Python values of the numeric parameters.  Type hints are not enforced,  *)
(* so a caller can pass a non-number (None) where an int is declared.      *)
(***************************************************************************)
PyInt(n) == [type |-> "int", val |-> n]
PyFloat(t) == [type |-> "float", val |-> t]
PyNone == [type |-> "NoneType", val |-> 0]
IsNumber(v) == v.type \in {"int", "float"}

\* an optional keyword argument: <<>> when omitted, <<x>> when passed
Opt(S) == {<<>>} \cup {<<x>> : x \in S}

(***************************************************************************)
(* Valves and the configurations tried.                                    *)
(***************************************************************************)
DefaultValves ==
    [STABLE_DIFFUSION_URL |-> "http://stable-diffusion:17860",
     DEFAULT_STEPS |-> 20,
     DEFAULT_CFG_SCALE |-> 70,
     DEFAULT_WIDTH |-> 512,
     DEFAULT_HEIGHT |-> 512,
     DEFAULT_SAMPLER |-> "Euler a"]

\* the defaults, and records an administrator installs in their place
ValvesConfigs ==
    { DefaultValves,
      [DefaultValves EXCEPT !.DEFAULT_WIDTH = 500, !.DEFAULT_HEIGHT = 768],
      [DefaultValves EXCEPT !.DEFAULT_WIDTH = 32, !.DEFAULT_STEPS = 150,
                            !.DEFAULT_SAMPLER = "DDIM"],
      [DefaultValves EXCEPT !.DEFAULT_HEIGHT = 40, !.DEFAULT_CFG_SCALE = 45,
                            !.DEFAULT_STEPS = 0] }

(***************************************************************************)
(* The arguments tried.                                                    *)
(***************************************************************************)
Prompts == {"a cat"}
NegativePrompts == {"", "text, watermark"}
WidthArgs == {PyInt(0 - 1), PyInt(63), PyInt(500), PyNone}
HeightArgs == {PyInt(1000)}
StepsArgs == {PyInt(s) : s \in {0, 1, 500} \cup (99 .. MaxStepsArg)} \cup {PyNone}
CfgArgs == {PyFloat(500)}
SamplerArgs == {"DDIM"}

\* a signature whose negative_prompt default is the empty string
EmptyNegativePrompt(opn) == ""

\* the default values of the signatures
DefaultNegativePrompt(opn) ==
    IF opn = "generate_image"
    THEN "blurry, bad quality, distorted, ugly, deformed, low resolution, pixelated"
    ELSE "blurry, bad quality, distorted, ugly, deformed, low resolution"

AdvancedDefaults ==
    [negative_prompt |-> DefaultNegativePrompt("generate_image_advanced"),
     width |-> PyInt(512),
     height |-> PyInt(512),
     steps |-> PyInt(20),
     cfg_scale |-> PyFloat(70),
     sampler_name |-> "Euler a"]

\* Python's binding of a keyword argument: the passed value, else the default
Bind(kw, dflt) == IF kw # <<>> THEN kw[1] ELSE dflt

(***************************************************************************)
(* Normalisation of the parameters.                                        *)
(***************************************************************************)
FloorTo64(n) == (n \div 64) * 64
ClampDim(n) == Max(64, (n \div 64) * 64)
\* the clamp without its upper limit
ClampStepsNoCap(n) == Max(1, n)
ClampSteps(n) == Max(1, Min(n, 100))
ClampCfg(t) == Max(10, Min(t, 300))

Payload(prompt, negative_prompt, steps, cfg_scale, width, height, sampler_name) ==
    [prompt |-> prompt,
     negative_prompt |-> negative_prompt,
     steps |-> steps,
     cfg_scale |-> cfg_scale,
     width |-> width,
     height |-> height,
     seed |-> 0 - 1,
     sampler_name |-> sampler_name,
     batch_size |-> 1,
     n_iter |-> 1]

PostRequest(v, body) ==
    [method |-> "POST",
     url |-> v.STABLE_DIFFUSION_URL \o "/sdapi/v1/txt2img",
     json |-> body,
     timeout |-> 600]

NoArgs == [prompt |-> ""]
NoResponse == [kind |-> "none"]
NoResult == [kind |-> "none"]

Init ==
    /\ valves \in ValvesConfigs
    /\ pc = "idle"
    /\ op = "none"
    /\ args = NoArgs
    /\ given = {}
    /\ sent = <<>>
    /\ response = NoResponse
    /\ result = NoResult

(***************************************************************************)
(* The remote service: what can come back from the POST.                   *)
(***************************************************************************)
Images == {"QQ==", "Qg=="}
ImageArrays == UNION { [1 .. n -> Images] : n \in 0 .. MaxImages }

ImagesValues ==
    {[t |-> "absent", items |-> <<>>], [t |-> "null", items |-> <<>>]}
        \cup {[t |-> "array", items |-> x] : x \in ImageArrays}

InfoValues == {[present |-> FALSE, seed |-> 0], [present |-> TRUE, seed |-> 42]}

NoBody == [json |-> "none", images |-> [t |-> "absent", items |-> <<>>],
           info |-> [present |-> FALSE, seed |-> 0]]

Bodies ==
    {[NoBody EXCEPT !.json = "malformed"], [NoBody EXCEPT !.json = "null"]}
        \cup {[json |-> "object", images |-> im, info |-> nf] :
                im \in ImagesValues, nf \in InfoValues}

\* exceptions requests.post raises; what json() raises on a malformed body
\* depends on the installed requests (its own JSONDecodeError, or ValueError)
TransportErrors == {"ConnectionError", "ConnectTimeout", "ReadTimeout"}
JsonErrors == {"JSONDecodeError", "ValueError"}

Responses ==
    {[kind |-> "transport", exc |-> e, status |-> 0, body |-> NoBody] :
        e \in TransportErrors}
        \cup {[kind |-> "http", exc |-> "none", status |-> 500, body |-> NoBody]}
        \cup {[kind |-> "http", exc |-> e, status |-> 200,
               body |-> [NoBody EXCEPT !.json = "malformed"]] : e \in JsonErrors}
        \cup {[kind |-> "http", exc |-> "none", status |-> 200, body |-> b] :
                b \in Bodies \ {[NoBody EXCEPT !.json = "malformed"]}}

(***************************************************************************)
(* The exception classes and the except clauses.                           *)
(***************************************************************************)
Bases(c) ==
    CASE c = "ConnectTimeout" -> {"ConnectionError", "Timeout"}
      [] c = "ReadTimeout" -> {"Timeout"}
      [] c = "ConnectionError" -> {"RequestException"}
      [] c = "Timeout" -> {"RequestException"}
      [] c = "HTTPError" -> {"RequestException"}
      [] c = "JSONDecodeError" -> {"RequestException"}
      [] c = "RequestException" -> {"Exception"}
      [] c = "TypeError" -> {"Exception"}
      [] c = "ValueError" -> {"Exception"}
      [] OTHER -> {}

RECURSIVE IsInstance(_, _)
IsInstance(e, c) == e = c \/ \E b \in Bases(e) : IsInstance(b, c)

Returned(parts) == [kind |-> "return", value |-> parts, exc |-> "none"]
Raised(e) == [kind |-> "raise", value |-> <<>>, exc |-> e]

\* str(cfg_scale) of a float held in tenths
FloatStr(t) == ToString(t \div 10) \o "." \o ToString(t % 10)

DataUri == "data:image/png;base64,"

SuccessString(opn, image, prompt, body) ==
    IF opn = "generate_image"
    THEN <<"![Generated Image](", DataUri, image,
           ")\n\n**Generated with prompt:** ", prompt>>
    ELSE <<"![Generated Image](", DataUri, image,
           ")\n\n**Settings:** ", ToString(body.width), "x", ToString(body.height),
           ", ", ToString(body.steps), " steps, CFG ", FloatStr(body.cfg_scale),
           "\n**Prompt:** ", prompt>>

NoImageMessage(opn) ==
    IF opn = "generate_image"
    THEN <<"Error: No image was generated. Please try again with a different prompt.">>
    ELSE <<"Error: No image was generated.">>

ConnectionMessage(opn) ==
    IF opn = "generate_image"
    THEN <<"Error: Could not connect to Stable Diffusion. The image generation service may be starting up - please wait a moment and try again.">>
    ELSE <<"Error: Could not connect to Stable Diffusion. Please try again in a moment.">>

TimeoutMessage(opn) ==
    IF opn = "generate_image"
    THEN <<"Error: Image generation timed out. The server may be busy. Please try again.">>
    ELSE <<"Error: Image generation timed out. Try reducing steps or image size.">>

\* result["images"][-1] in place of result["images"][0]
LastImage(items) == items[Len(items)]

\* result["images"][0]
FirstImage(items) == items[1]

\* the body of the try block, after the POST was issued
TryBody(opn, prompt, body, r) ==
    IF r.kind = "transport" THEN Raised(r.exc)
    ELSE IF r.status >= 400 THEN Raised("HTTPError")
    ELSE IF r.body.json = "malformed" THEN Raised(r.exc)
    ELSE IF r.body.json = "null" THEN Raised("TypeError")
    ELSE IF r.body.images.t = "absent" THEN Returned(NoImageMessage(opn))
    ELSE IF r.body.images.t = "null" THEN Raised("TypeError")
    ELSE IF Len(r.body.images.items) > 0
         THEN Returned(SuccessString(opn, FirstImage(r.body.images.items), prompt, body))
         ELSE Returned(NoImageMessage(opn))

\* the except clauses, in the order they are written
Handlers(opn, x) ==
    IF x.kind = "return" THEN x
    ELSE IF IsInstance(x.exc, "ConnectionError") THEN Returned(ConnectionMessage(opn))
    ELSE IF IsInstance(x.exc, "Timeout") THEN Returned(TimeoutMessage(opn))
    ELSE IF IsInstance(x.exc, "RequestException")
         THEN Returned(<<"Error generating image: ", x.exc>>)
    ELSE IF IsInstance(x.exc, "Exception")
         THEN Returned(<<"Unexpected error: ", x.exc>>)
    ELSE x

(***************************************************************************)
(* The operations.                                                         *)
(***************************************************************************)
GivenOf(kws) == {p \in DOMAIN kws : kws[p] # <<>>}

\* generate_image storing the floored dimensions back into the valves
GenerateImageWritesBack ==
    /\ pc = "idle"
    /\ \E prompt \in Prompts, neg \in Opt(NegativePrompts) :
        LET negative_prompt == Bind(neg, DefaultNegativePrompt("generate_image"))
            width == FloorTo64(valves.DEFAULT_WIDTH)
            height == FloorTo64(valves.DEFAULT_HEIGHT)
        IN  /\ op' = "generate_image"
            /\ args' = [prompt |-> prompt, negative_prompt |-> negative_prompt]
            /\ given' = {"prompt"} \cup GivenOf([negative_prompt |-> neg])
            /\ valves' = [valves EXCEPT !.DEFAULT_WIDTH = width,
                                         !.DEFAULT_HEIGHT = height]
            /\ sent' = Append(sent, PostRequest(valves,
                          Payload(prompt, negative_prompt, valves.DEFAULT_STEPS,
                                  valves.DEFAULT_CFG_SCALE, width, height,
                                  valves.DEFAULT_SAMPLER)))
            /\ pc' = "awaiting"
    /\ UNCHANGED <<response, result>>

\* generate_image up to the POST
GenerateImage ==
    /\ pc = "idle"
    /\ \E prompt \in Prompts, neg \in Opt(NegativePrompts) :
        LET negative_prompt == Bind(neg, DefaultNegativePrompt("generate_image"))
            width == FloorTo64(valves.DEFAULT_WIDTH)
            height == FloorTo64(valves.DEFAULT_HEIGHT)
            steps == valves.DEFAULT_STEPS
            cfg_scale == valves.DEFAULT_CFG_SCALE
            sampler_name == valves.DEFAULT_SAMPLER
        IN  /\ op' = "generate_image"
            /\ args' = [prompt |-> prompt, negative_prompt |-> negative_prompt]
            /\ given' = {"prompt"} \cup GivenOf([negative_prompt |-> neg])
            /\ sent' = Append(sent, PostRequest(valves,
                          Payload(prompt, negative_prompt, steps, cfg_scale,
                                  width, height, sampler_name)))
            /\ pc' = "awaiting"
    /\ UNCHANGED <<valves, response, result>>

NumericParams == {"width", "height", "steps", "cfg_scale"}

\* generate_image_advanced up to the POST; the normalisation is outside the
\* try block, and arithmetic on a non-number raises TypeError
GenerateImageAdvanced ==
    /\ pc = "idle"
    /\ \E prompt \in Prompts, neg \in Opt(NegativePrompts), w \in Opt(WidthArgs),
          h \in Opt(HeightArgs), s \in Opt(StepsArgs), c \in Opt(CfgArgs),
          sm \in Opt(SamplerArgs) :
        LET a == [prompt |-> prompt,
                  negative_prompt |-> Bind(neg, AdvancedDefaults.negative_prompt),
                  width |-> Bind(w, AdvancedDefaults.width),
                  height |-> Bind(h, AdvancedDefaults.height),
                  steps |-> Bind(s, AdvancedDefaults.steps),
                  cfg_scale |-> Bind(c, AdvancedDefaults.cfg_scale),
                  sampler_name |-> Bind(sm, AdvancedDefaults.sampler_name)]
        IN  /\ op' = "generate_image_advanced"
            /\ args' = a
            /\ given' = {"prompt"} \cup
                          GivenOf([negative_prompt |-> neg, width |-> w, height |-> h,
                                   steps |-> s, cfg_scale |-> c, sampler_name |-> sm])
            /\ IF \A p \in NumericParams : IsNumber(a[p])
               THEN /\ sent' = Append(sent, PostRequest(valves,
                                  Payload(a.prompt, a.negative_prompt,
                                          ClampSteps(a.steps.val),
                                          ClampCfg(a.cfg_scale.val),
                                          ClampDim(a.width.val),
                                          ClampDim(a.height.val),
                                          a.sampler_name)))
                    /\ pc' = "awaiting"
                    /\ result' = result
               ELSE /\ sent' = sent
                    /\ pc' = "raised"
                    /\ result' = Raised("TypeError")
    /\ UNCHANGED <<valves, response>>

\* the rest of the operation with a second attempt after a failed POST
RemoteOutcomeRetry ==
    /\ pc = "awaiting"
    /\ \E r \in Responses :
        /\ response' = r
        /\ IF (r.kind = "transport" \/ r.status >= 400) /\ Len(sent) < 2
           THEN /\ sent' = Append(sent, sent[Len(sent)])
                /\ pc' = "awaiting"
                /\ result' = result
           ELSE /\ sent' = sent
                /\ result' = Handlers(op, TryBody(op, args.prompt, sent[Len(sent)].json, r))
                /\ pc' = "returned"
    /\ UNCHANGED <<valves, op, args, given>>

\* the POST completes or fails, and the rest of the operation runs
RemoteOutcome ==
    /\ pc = "awaiting"
    /\ \E r \in Responses :
        /\ response' = r
        /\ result' = Handlers(op, TryBody(op, args.prompt, sent[Len(sent)].json, r))
    /\ pc' = IF result'.kind = "return" THEN "returned" ELSE "raised"
    /\ UNCHANGED <<valves, op, args, given, sent>>

\* the caller has the result; the object is ready for the next call
Return ==
    /\ pc \in {"returned", "raised"}
    /\ pc' = "idle"
    /\ op' = "none"
    /\ args' = NoArgs
    /\ given' = {}
    /\ sent' = <<>>
    /\ response' = NoResponse
    /\ result' = NoResult
    /\ UNCHANGED valves

Next == GenerateImage \/ GenerateImageAdvanced \/ RemoteOutcome \/ Return

Spec == Init /\ [][Next]_vars

(***************************************************************************)
(* The properties.                                                         *)
(***************************************************************************)
Issued == Len(sent) >= 1
Body == sent[1].json
Finished == pc \in {"returned", "raised"}
Contains(parts, x) == \E i \in 1 .. Len(parts) : parts[i] = x
\* part x directly followed by part y
ContainsPair(parts, x, y) ==
    \E i \in 1 .. Len(parts) - 1 : parts[i] = x /\ parts[i + 1] = y
Answered200 == pc = "returned" /\ response.kind = "http" /\ response.status = 200
ImagesNonEmpty ==
    /\ response.body.json = "object"
    /\ response.body.images.t = "array"
    /\ Len(response.body.images.items) > 0
TxtToImgUrl == valves.STABLE_DIFFUSION_URL \o "/sdapi/v1/txt2img"

\* C1: every call of generate_image or generate_image_advanced, whatever the
\* arguments and the remote outcome, ends by returning a string; no exception
\* leaves the operation.
C1_AlwaysReturnsString ==
    Finished => result.kind = "return"

\* Side fact to C1: a call whose numeric arguments are all numbers returns a
\* string for every remote outcome.
WellTypedCallsReturn ==
    (Finished /\ (op = "generate_image"
                    \/ \A p \in NumericParams : IsNumber(args[p])))
        => result.kind = "return"

\* C2: the width and height of every request body are multiples of 64 and at
\* least 64, for generate_image (configured sizes) and generate_image_advanced.
C2_DimensionsMultipleOf64AtLeast64 ==
    Issued => /\ Body.width % 64 = 0 /\ Body.width >= 64
              /\ Body.height % 64 = 0 /\ Body.height >= 64

C4_NoImageMessageWhenNoImages ==
    (/\ Answered200
     /\ response.body.json = "object"
     /\ \/ response.body.images.t \in {"absent", "null"}
        \/ Len(response.body.images.items) = 0)
        => result = Returned(NoImageMessage(op))

\* C5: whenever the POST fails with a failure of the Timeout kind (read timeout
\* or connect timeout), the result is the operation's timeout message.
C5_TimeoutsReportedAsTimeouts ==
    (/\ pc = "returned"
     /\ response.kind = "transport"
     /\ IsInstance(response.exc, "Timeout"))
        => result = Returned(TimeoutMessage(op))

\* C6: the steps sent by generate_image_advanced are min(max(steps, 1), 100),
\* hence within 1..100; generate_image sends DEFAULT_STEPS unmodified.
C6_StepsClamped ==
    Issued =>
        /\ op = "generate_image_advanced"
            => /\ Body.steps = Min(Max(args.steps.val, 1), 100)
               /\ Body.steps \in 1 .. 100
        /\ op = "generate_image" => Body.steps = valves.DEFAULT_STEPS

C6_Witness ==
    /\ Issued
    /\ op = "generate_image_advanced"
    /\ args.steps.val = 500
    /\ Body.steps = 100

\* C7, as claimed: when the negative prompt is the empty string or omitted, the
\* negative_prompt sent is the quality-exclusion default phrase, never "".
C7_EmptyOrOmittedNegativeGetsDefault ==
    (Issued /\ ("negative_prompt" \notin given \/ args.negative_prompt = ""))
        => /\ Body.negative_prompt = DefaultNegativePrompt(op)
           /\ Body.negative_prompt # ""

\* C7, amended: when the negative prompt is omitted, the negative_prompt sent is
\* the operation's quality-exclusion default phrase, never ""; a negative
\* prompt passed as the empty string is sent as the empty string.
C7_OmittedNegativeGetsDefault ==
    Issued =>
        /\ "negative_prompt" \notin given
            => Body.negative_prompt \in
                 {"blurry, bad quality, distorted, ugly, deformed, low resolution, pixelated",
                  "blurry, bad quality, distorted, ugly, deformed, low resolution"}
        /\ ("negative_prompt" \in given /\ args.negative_prompt = "")
            => Body.negative_prompt = ""

C7_Witness ==
    /\ Issued
    /\ op = "generate_image_advanced"
    /\ "negative_prompt" \notin given
    /\ Body.negative_prompt =
         "blurry, bad quality, distorted, ugly, deformed, low resolution"

\* C8: each of width, height, steps, cfg_scale and sampler_name that the caller
\* omits enters the request as the value held in the valves (width and height
\* then normalised by the operation), in both operations.
C8_OmittedTakeConfiguredValues ==
    Issued =>
        /\ op = "generate_image"
            => /\ Body.width = FloorTo64(valves.DEFAULT_WIDTH)
               /\ Body.height = FloorTo64(valves.DEFAULT_HEIGHT)
               /\ Body.steps = valves.DEFAULT_STEPS
               /\ Body.cfg_scale = valves.DEFAULT_CFG_SCALE
               /\ Body.sampler_name = valves.DEFAULT_SAMPLER
        /\ op = "generate_image_advanced"
            => /\ "width" \notin given => args.width.val = valves.DEFAULT_WIDTH
               /\ "height" \notin given => args.height.val = valves.DEFAULT_HEIGHT
               /\ "steps" \notin given => args.steps.val = valves.DEFAULT_STEPS
               /\ "cfg_scale" \notin given
                    => args.cfg_scale.val = valves.DEFAULT_CFG_SCALE
               /\ "sampler_name" \notin given
                    => args.sampler_name = valves.DEFAULT_SAMPLER

\* C9: an invocation issues at most one request, a POST to
\* {baseURL}/sdapi/v1/txt2img, and once the request has been answered or has
\* failed the invocation has issued exactly that one request: no retry.
C9_AtMostOneRequestNoRetry ==
    /\ Len(sent) <= 1
    /\ \A i \in 1 .. Len(sent) :
        sent[i].method = "POST" /\ sent[i].url = TxtToImgUrl
    /\ pc = "returned" => Len(sent) = 1

C9_Witness ==
    /\ pc = "returned"
    /\ response.kind = "transport"
    /\ response.exc = "ConnectionError"
    /\ Len(sent) = 1
    /\ sent[1].url = "http://stable-diffusion:17860/sdapi/v1/txt2img"

\* C10: no step of generate_image or generate_image_advanced, on success or on
\* any error path, changes the configuration record: the valves keep the value
\* they had at construction.
C10_ValvesNeverChange == [][valves' = valves]_vars

C10_Witness ==
    /\ pc = "returned"
    /\ op = "generate_image"
    /\ valves.DEFAULT_WIDTH = 500
    /\ Body.width = 448

====
